---- MODULE Spec2Model ----
(***************************************************************************)
(* A model of the SonicOS audio analyzer (src/src/audio/AudioAnalyzer.ts): *)
(* the pure band-energy functions, the onset/BPM detector and the          *)
(* AudioAnalyzer object with its animation-frame loop and callback set.    *)
(*                                                                         *)
(* Numbers.  JavaScript numbers are modelled as exact rationals <<n, d>>  *)
(* (d > 0, lowest terms), so that a mean, a quotient or a comparison with  *)
(* 0.15 is computed, not assumed.  Timestamps are whole milliseconds and   *)
(* decibel values are whole decibels; floating-point rounding is not       *)
(* modelled.                                                               *)
(***************************************************************************)
EXTENDS Integers, Sequences, FiniteSets, TLC

(***************************************************************************)
(* Program constants (AudioAnalyzer.ts lines 20-42).                       *)
(***************************************************************************)
FFT_SIZE == 2048
SAMPLE_RATE == 44100
MIN_BPM == 60
MAX_BPM == 200
LOW_FREQ_MIN == 20
LOW_FREQ_MAX == 250
\* MID_FREQ_MIN below LOW_FREQ_MAX: the mid range starts inside the low range
MID_FREQ_MIN_BelowLowMax == LOW_FREQ_MAX - 240
MID_FREQ_MIN == 250
MID_FREQ_MAX == 4000
HIGH_FREQ_MIN == 4000
HIGH_FREQ_MAX == 20000
\* LOW_WEIGHT with the value of MID_WEIGHT: total no longer weighs low by 0.5
LOW_WEIGHT_AsMid == <<3, 10>>

\* the weights 0.5, 0.3, 0.2 and the threshold 0.15 as rationals
LOW_WEIGHT == <<1, 2>>
MID_WEIGHT == <<3, 10>>
HIGH_WEIGHT == <<1, 5>>
ONSET_THRESHOLD == <<3, 20>>
MIN_ONSET_INTERVAL_MS == 300
MAX_ONSET_INTERVAL_MS == 1000
ONSET_HISTORY_SIZE == 16
MinDb == -100
MaxDb == 0

(***************************************************************************)
(* Exact rational arithmetic standing for JavaScript number arithmetic.    *)
(* A binary operation binds its operands (x \in {a}, y \in {b}) so that an *)
(* operand that is itself a long expression is evaluated once.             *)
(***************************************************************************)
Abs(x) == IF x < 0 THEN -x ELSE x

RECURSIVE GCD(_, _)
GCD(a, b) ==
    IF b = 0 THEN a
    ELSE CHOOSE g \in {GCD(y, x % y) : x \in {a}, y \in {b}} : TRUE

\* the rational n/d (d # 0) in lowest terms with a positive denominator
Rat(n, d) ==
    LET s == IF d < 0 THEN -1 ELSE 1
        g == GCD(Abs(n), Abs(d))
    IN  <<(s * n) \div g, (s * d) \div g>>

RatInt(n) == <<n, 1>>
RatAdd(a, b) ==
    CHOOSE r \in {Rat(x[1] * y[2] + y[1] * x[2], x[2] * y[2]) : x \in {a}, y \in {b}} : TRUE
RatSub(a, b) ==
    CHOOSE r \in {Rat(x[1] * y[2] - y[1] * x[2], x[2] * y[2]) : x \in {a}, y \in {b}} : TRUE
RatMul(a, b) ==
    CHOOSE r \in {Rat(x[1] * y[1], x[2] * y[2]) : x \in {a}, y \in {b}} : TRUE
\* a / b for b # 0
RatDiv(a, b) ==
    CHOOSE r \in {Rat(x[1] * y[2], x[2] * y[1]) : x \in {a}, y \in {b}} : TRUE
RatLt(a, b) == a[1] * b[2] < b[1] * a[2]
RatLe(a, b) == a[1] * b[2] <= b[1] * a[2]
RatMin(a, b) ==
    CHOOSE r \in {IF RatLt(y, x) THEN y ELSE x : x \in {a}, y \in {b}} : TRUE
RatMax(a, b) ==
    CHOOSE r \in {IF RatLt(x, y) THEN y ELSE x : x \in {a}, y \in {b}} : TRUE

(***************************************************************************)
(* Arrays.  A Float32Array is held by its runs: a sequence of              *)
(* <<count, value>> pairs, count >= 1, so that a 1024-bin buffer whose     *)
(* bins are equal over long stretches stays small.  ArrayLen is the        *)
(* array's length and At(a, i) its element at the 0-based index i.         *)
(***************************************************************************)
RECURSIVE ArrayLen(_)
ArrayLen(a) == IF a = <<>> THEN 0 ELSE Head(a)[1] + ArrayLen(Tail(a))

RECURSIVE At(_, _)
At(a, i) == IF i < Head(a)[1] THEN Head(a)[2] ELSE At(Tail(a), i - Head(a)[1])

\* new Float32Array(n): n zeros
ZeroArray(n) == << <<n, RatInt(0)>> >>

\* a followed by one more run of count elements equal to value, merged into
\* the last run of a when the values agree (so equal arrays have equal runs)
AppendRun(a, count, value) ==
    IF a # <<>> /\ a[Len(a)][2] = value
    THEN [a EXCEPT ![Len(a)] = <<a[Len(a)][1] + count, value>>]
    ELSE Append(a, <<count, value>>)

(***************************************************************************)
(* frequencyToBin (lines 48-51): Math.round(frequency / (sampleRate /      *)
(* fftSize)) for positive arguments; Math.round rounds a half up.          *)
(***************************************************************************)
frequencyToBin(frequency, fftSize, sampleRate) ==
    (2 * frequency * fftSize + sampleRate) \div (2 * sampleRate)

(***************************************************************************)
(* calculateBandEnergy (lines 60-73).                                      *)
(***************************************************************************)
IntMin(a, b) == IF a < b THEN a ELSE b
IntMax(a, b) == IF a < b THEN b ELSE a

\* the sum of fftData[i] for startBin <= i < endBin (lines 65-70), for an
\* array whose runs start at index `first`: the bins of a run are equal, so
\* a run adds its value once for each of its bins inside the range
RECURSIVE SumBins(_, _, _, _)
SumBins(fftData, first, startBin, endBin) ==
    IF fftData = <<>> \/ first >= endBin THEN RatInt(0)
    ELSE LET count == Head(fftData)[1]
             inside == IntMax(0, IntMin(first + count, endBin) - IntMax(first, startBin))
         IN  RatAdd(RatMul(RatInt(inside), Head(fftData)[2]),
                    SumBins(Tail(fftData), first + count, startBin, endBin))

\* calculateBandEnergy without the check of endBin against the length
calculateBandEnergy_NoLengthCheck(fftData, startBin, endBin) ==
    IF startBin >= endBin \/ startBin < 0
    THEN RatInt(0)
    ELSE LET sum == SumBins(fftData, 0, startBin, endBin)
             count == endBin - startBin
         IN  IF count > 0 THEN RatDiv(sum, RatInt(count)) ELSE RatInt(0)

calculateBandEnergy(fftData, startBin, endBin) ==
    IF startBin >= endBin \/ startBin < 0 \/ endBin > ArrayLen(fftData)
    THEN RatInt(0)
    ELSE LET sum == SumBins(fftData, 0, startBin, endBin)
             count == endBin - startBin
         IN  IF count > 0 THEN RatDiv(sum, RatInt(count)) ELSE RatInt(0)

\* the indices calculateBandEnergy reads from fftData: none when the range
\* check returns early (line 65), else those of the summing loop (69-71)
BinsRead(fftData, startBin, endBin) ==
    IF startBin >= endBin \/ startBin < 0 \/ endBin > ArrayLen(fftData)
    THEN {}
    ELSE startBin..(endBin - 1)

(***************************************************************************)
(* calculateEnergyBands (lines 78-98).                                     *)
(***************************************************************************)
calculateEnergyBands(fftData, fftSize, sampleRate) ==
    LET lowStart == frequencyToBin(LOW_FREQ_MIN, fftSize, sampleRate)
        lowEnd == frequencyToBin(LOW_FREQ_MAX, fftSize, sampleRate)
        midStart == frequencyToBin(MID_FREQ_MIN, fftSize, sampleRate)
        midEnd == frequencyToBin(MID_FREQ_MAX, fftSize, sampleRate)
        highStart == frequencyToBin(HIGH_FREQ_MIN, fftSize, sampleRate)
        highEnd == IntMin(frequencyToBin(HIGH_FREQ_MAX, fftSize, sampleRate),
                          ArrayLen(fftData))
        low == calculateBandEnergy(fftData, lowStart, lowEnd)
        mid == calculateBandEnergy(fftData, midStart, midEnd)
        high == calculateBandEnergy(fftData, highStart, highEnd)
        total == RatMin(RatInt(1), RatMax(RatInt(0),
                     RatAdd(RatAdd(RatMul(low, LOW_WEIGHT), RatMul(mid, MID_WEIGHT)),
                            RatMul(high, HIGH_WEIGHT))))
    IN  [low |-> low, mid |-> mid, high |-> high, total |-> total]

(***************************************************************************)
(* constrainBpm (lines 103-105).                                           *)
(***************************************************************************)
constrainBpm(bpm) == RatMin(RatInt(MAX_BPM), RatMax(RatInt(MIN_BPM), bpm))

(***************************************************************************)
(* BpmDetector (lines 111-174).  The detector object is a record of its    *)
(* four fields; each method is an operator from the object to the object   *)
(* it leaves behind.                                                       *)
(***************************************************************************)
NewBpmDetector ==
    [onsetTimes |-> <<>>, lastEnergy |-> RatInt(0), lastOnsetTime |-> 0,
     currentBpm |-> RatInt(120)]

RECURSIVE SumSeq(_)
SumSeq(s) == IF s = <<>> THEN 0 ELSE Head(s) + SumSeq(Tail(s))

\* the differences onsetTimes[i] - onsetTimes[i-1] of lines 150-151, in order
AllIntervals(onsetTimes) ==
    [i \in 1..(Len(onsetTimes) - 1) |-> onsetTimes[i + 1] - onsetTimes[i]]

\* IsValidInterval without the upper bound: a long gap counts as an interval
IsValidInterval_NoUpperBound(interval) == interval >= MIN_ONSET_INTERVAL_MS

IsValidInterval(interval) ==
    interval >= MIN_ONSET_INTERVAL_MS /\ interval <= MAX_ONSET_INTERVAL_MS

\* the array `intervals` built by the loop of lines 148-155
ValidIntervals(onsetTimes) == SelectSeq(AllIntervals(onsetTimes), IsValidInterval)

\* BpmFrom falling back to the default when no interval is valid
BpmFrom_DefaultWithoutIntervals(d, intervals) ==
    IF Len(intervals) > 0
    THEN [d EXCEPT !.currentBpm =
             constrainBpm(RatDiv(RatInt(60000), Rat(SumSeq(intervals), Len(intervals))))]
    ELSE [d EXCEPT !.currentBpm = RatInt(120)]

\* lines 157-161, `intervals` built
BpmFrom(d, intervals) ==
    IF Len(intervals) > 0
    THEN LET avgInterval == Rat(SumSeq(intervals), Len(intervals))
             bpm == RatDiv(RatInt(60000), avgInterval)
         IN  [d EXCEPT !.currentBpm = constrainBpm(bpm)]
    ELSE d

\* updateBpm (lines 147-162)
updateBpm(d) == BpmFrom(d, ValidIntervals(d.onsetTimes))

\* IsOnset with >= for the threshold: a delta of exactly 0.15 is an onset
IsOnset_AtThreshold(energyDelta, timestamp, lastOnsetTime) ==
    /\ RatLe(ONSET_THRESHOLD, energyDelta)
    /\ (timestamp - lastOnsetTime) > MIN_ONSET_INTERVAL_MS

\* IsOnset with >= for the interval: an onset 300 ms after the last is one
IsOnset_IntervalInclusive(energyDelta, timestamp, lastOnsetTime) ==
    /\ RatLt(ONSET_THRESHOLD, energyDelta)
    /\ (timestamp - lastOnsetTime) >= MIN_ONSET_INTERVAL_MS
\* the onset condition of lines 126-127
IsOnset(energyDelta, timestamp, lastOnsetTime) ==
    /\ RatLt(ONSET_THRESHOLD, energyDelta)
    /\ (timestamp - lastOnsetTime) > MIN_ONSET_INTERVAL_MS

\* PushOnset with pop for shift: over its size, the history drops the newest
PushOnset_DropsNewest(onsetTimes, timestamp) ==
    IF Len(onsetTimes) + 1 > ONSET_HISTORY_SIZE
    THEN onsetTimes
    ELSE Append(onsetTimes, timestamp)

\* lines 131-136: push, then shift when the history is over its size
PushOnset(onsetTimes, timestamp) ==
    LET pushed == Append(onsetTimes, timestamp)
    IN  IF Len(pushed) > ONSET_HISTORY_SIZE THEN Tail(pushed) ELSE pushed

\* lines 138-142, the onset pushed
BpmUpdated(d) == IF Len(d.onsetTimes) >= 2 THEN updateBpm(d) ELSE d

\* lines 129-142: the detector after an onset at `timestamp`
\* OnsetRecorded taking lastOnsetTime for an onset when the history is empty
OnsetRecorded_SeedsHistory(d, timestamp) ==
    BpmUpdated([d EXCEPT !.lastOnsetTime = timestamp,
                         !.onsetTimes =
                             IF d.onsetTimes = <<>>
                             THEN <<d.lastOnsetTime, timestamp>>
                             ELSE PushOnset(d.onsetTimes, timestamp)])
OnsetRecorded(d, timestamp) ==
    BpmUpdated([d EXCEPT !.lastOnsetTime = timestamp,
                         !.onsetTimes = PushOnset(d.onsetTimes, timestamp)])

\* processEnergy (lines 121-145): the detector left behind (det) and the
\* value returned (beat)
\* processEnergy recording every tick's timestamp in the history, onset or not
ProcessedWith_RecordsEveryTick(d, energy, timestamp, isOnset) ==
    [det |-> OnsetRecorded([d EXCEPT !.lastEnergy = energy], timestamp),
     beat |-> isOnset]

\* processEnergy storing the energy only when it declares an onset
ProcessedWith_EnergyOnOnsetOnly(d, energy, timestamp, isOnset) ==
    [det |-> IF isOnset
             THEN OnsetRecorded([d EXCEPT !.lastEnergy = energy], timestamp)
             ELSE d,
     beat |-> isOnset]
ProcessedWith(d, energy, timestamp, isOnset) ==
    [det |-> IF isOnset
             THEN OnsetRecorded([d EXCEPT !.lastEnergy = energy], timestamp)
             ELSE [d EXCEPT !.lastEnergy = energy],
     beat |-> isOnset]

processEnergy(d, energy, timestamp) ==
    ProcessedWith(d, energy, timestamp,
                  IsOnset(RatSub(energy, d.lastEnergy), timestamp, d.lastOnsetTime))

\* getBpm (lines 164-166)
getBpm(d) == d.currentBpm

\* reset leaving the BPM at 0 like the other fields
reset_ZeroBpm(d) ==
    [onsetTimes |-> <<>>, lastEnergy |-> RatInt(0), lastOnsetTime |-> 0,
     currentBpm |-> RatInt(0)]

\* reset that forgets to empty the history
reset_KeepsHistory(d) ==
    [onsetTimes |-> d.onsetTimes, lastEnergy |-> RatInt(0), lastOnsetTime |-> 0,
     currentBpm |-> RatInt(120)]

\* reset leaving the time of the last onset
reset_KeepsLastOnsetTime(d) ==
    [onsetTimes |-> <<>>, lastEnergy |-> RatInt(0),
     lastOnsetTime |-> d.lastOnsetTime, currentBpm |-> RatInt(120)]

\* reset leaving the previous energy
reset_KeepsLastEnergy(d) ==
    [onsetTimes |-> <<>>, lastEnergy |-> d.lastEnergy, lastOnsetTime |-> 0,
     currentBpm |-> RatInt(120)]
\* reset (lines 168-173)
reset(d) ==
    [onsetTimes |-> <<>>, lastEnergy |-> RatInt(0), lastOnsetTime |-> 0,
     currentBpm |-> RatInt(120)]

(***************************************************************************)
(* normalizeFftData (lines 315-328): every bin clamped to [-100, 0] dB and *)
(* mapped to [0, 1].                                                       *)
(***************************************************************************)
\* NormalizeBin without the ceiling at MaxDb
NormalizeBin_NoCeiling(db) ==
    LET range == MaxDb - MinDb
    IN  RatDiv(RatSub(RatMax(RatInt(MinDb), db), RatInt(MinDb)), RatInt(range))

NormalizeBin(db) ==
    LET range == MaxDb - MinDb
    IN  RatDiv(RatSub(RatMax(RatInt(MinDb), RatMin(RatInt(MaxDb), db)), RatInt(MinDb)),
               RatInt(range))

RECURSIVE NormalizeRuns(_, _)
NormalizeRuns(fftData, acc) ==
    IF fftData = <<>> THEN acc
    ELSE NormalizeRuns(Tail(fftData),
                       AppendRun(acc, Head(fftData)[1], NormalizeBin(Head(fftData)[2])))

normalizeFftData(fftData) == NormalizeRuns(fftData, <<>>)

\* createSilentAnalysis with FFT_SIZE bins instead of FFT_SIZE / 2
createSilentAnalysis_FftSizeBins(timestamp) ==
    [timestamp |-> timestamp,
     fft |-> ZeroArray(FFT_SIZE),
     energy |-> [low |-> RatInt(0), mid |-> RatInt(0), high |-> RatInt(0),
                 total |-> RatInt(0)],
     bpm |-> RatInt(120),
     beat |-> FALSE]

\* createSilentAnalysis (lines 330-338)
createSilentAnalysis(timestamp) ==
    [timestamp |-> timestamp,
     fft |-> ZeroArray(FFT_SIZE \div 2),
     energy |-> [low |-> RatInt(0), mid |-> RatInt(0), high |-> RatInt(0),
                 total |-> RatInt(0)],
     bpm |-> RatInt(120),
     beat |-> FALSE]

(***************************************************************************)
(* Bounds of the model and the inputs the environment supplies.            *)
(***************************************************************************)
\* performance.now() never exceeds MaxTime milliseconds, and CoarseMaxTime
\* milliseconds under the small alphabet
MaxTime == 2400
CoarseMaxTime == 800
\* callbacks that consumers may register
NumCallbacks == 2
\* callback invocations one run of loop() may make
MaxCalls == 3
\* animation frames pending at one time
MaxFrames == 2

\* how far performance.now() may have advanced between two readings
Steps == {0, 300, 400}
CoarseSteps == {0, 400}
Callbacks == 1..NumCallbacks
Sources == {"MediaStream", "AudioNode"}
\* AudioContext.sampleRate is the device's choice
SampleRates == {44100, 48000}
CoarseSampleRates == {48000}

\* the decibel arrays AnalyserNode.getFloatFrequencyData may deliver: all
\* bins at one level (below the floor, -85, -70, above the ceiling), and a
\* bass-only frame
UniformFrame(db) == << <<FFT_SIZE \div 2, RatInt(db)>> >>
BassFrame == << <<11, RatInt(0)>>, <<(FFT_SIZE \div 2) - 11, RatInt(-100)>> >>
Frames == {UniformFrame(-120), UniformFrame(-85), UniformFrame(-70),
           UniformFrame(10), BassFrame}
CoarseFrames == {UniformFrame(-120), UniformFrame(10)}

(***************************************************************************)
(* The AudioAnalyzer object (lines 183-199) and its environment.           *)
(***************************************************************************)
VARIABLES
    audioContext,      \* NoContext, or the sampleRate of the AudioContext held
    analyserNode,      \* "null" or "AnalyserNode"
    sourceNode,        \* "null" or "AudioNode" (a MediaStreamAudioSourceNode is one)
    fftData,           \* Float32Array of FFT_SIZE / 2 decibel values
    normalizedFft,     \* Float32Array of FFT_SIZE / 2 values in [0, 1]
    bpmDetector,       \* the BpmDetector object
    callbacks,         \* the Set of callbacks, in insertion order
    animationFrameId,  \* NoFrame (null) or the id of the last frame requested
    isConnected,
    now,               \* the last value performance.now() returned
    scheduled,         \* ids of the frames requested and neither run nor cancelled
    inLoop,            \* TRUE while loop() is running a callback
    iterPos,           \* entries of callbacks the running for-of has passed
    analysis,          \* the local `analysis` of the running loop()
    invoked,           \* callbacks called so far by the last loop() that ran
    returned,          \* what getAnalysis() returned, if the last step called it
    call,              \* a call of one of the exported pure functions, or a paired run
    kept               \* the sample a client holds on to, and the object its fft is

vars == <<audioContext, analyserNode, sourceNode, fftData, normalizedFft,
          bpmDetector, callbacks, animationFrameId, isConnected, now, scheduled,
          inLoop, iterPos, analysis, invoked, returned, call, kept>>

NoContext == 0
NoFrame == 0
\* the id of a frame that has run: it is no pending frame's id any more, and
\* requestAnimationFrame never returns it again
StaleFrame == -1
\* no sample yet
NoSample == [timestamp |-> -1]
\* no pure function called
NoCall == [fn |-> "none", done |-> TRUE]
\* no client holds on to a sample / a client that will has none yet
NoKeeper == [held |-> "never"]
NothingKept == [held |-> "not yet"]

\* The arrays are objects: a sample's fft is a reference, and what a client
\* reads through it later is what the object then holds.  "normalizedFft"
\* is the analyzer's buffer, which normalizeFftData overwrites on every
\* connected getAnalysis; "new" is an array made for the sample, which the
\* analyzer keeps no reference to.
\* Float32Array.from returning its argument
Float32ArrayFrom_SameObject(source) == source
\* Float32Array.from(source) (line 286): the object of the copy
Float32ArrayFrom(source) == "new"
\* new Float32Array(n) (line 333)
NewFloat32Array == "new"

\* the analyzer as the constructor leaves it (lines 184-199)
Constructed ==
    /\ audioContext = NoContext
    /\ analyserNode = "null"
    /\ sourceNode = "null"
    /\ fftData = ZeroArray(FFT_SIZE \div 2)
    /\ normalizedFft = ZeroArray(FFT_SIZE \div 2)
    /\ bpmDetector = NewBpmDetector
    /\ callbacks = <<>>
    /\ animationFrameId = NoFrame
    /\ isConnected = FALSE

\* nothing has run yet
Quiescent ==
    /\ scheduled = {}
    /\ inLoop = FALSE
    /\ iterPos = 0
    /\ analysis = NoSample
    /\ invoked = <<>>
    /\ returned = NoSample

Init ==
    /\ Constructed
    /\ Quiescent
    /\ now = 0
    /\ call = NoCall
    /\ kept = NoKeeper

\* requestAnimationFrame returns an id no pending frame has
FreshFrame(pending) ==
    CHOOSE id \in 1..(MaxFrames + 1) :
        /\ id \notin pending
        /\ \A other \in 1..(MaxFrames + 1) : other \notin pending => id <= other

\* this.animationFrameId once the frame `id` has run
AfterFrame(id) == IF animationFrameId = id THEN StaleFrame ELSE animationFrameId

(***************************************************************************)
(* getAnalysis (lines 259-291) at the time `timestamp`, the analyser       *)
(* delivering `frame`: the buffers and detector it leaves and the sample   *)
(* it returns.                                                             *)
(***************************************************************************)
\* the caller of getAnalysis keeps the sample returned, whose fft refers to
\* fftObject, if it is a client that holds on to a sample and has none yet
Keep(fftObject) ==
    \/ kept' = kept
    \/ /\ kept = NothingKept
       /\ kept' = [held |-> "sample", sample |-> returned', fftObject |-> fftObject]

\* getAnalysis reading the BPM before the detector has processed the energy
getAnalysis_StaleBpm(timestamp, frame) ==
    IF ~isConnected \/ analyserNode = "null"
    THEN /\ returned' = createSilentAnalysis(timestamp)
         /\ Keep(NewFloat32Array)
         /\ UNCHANGED <<fftData, normalizedFft, bpmDetector>>
    ELSE \E normalized \in {normalizeFftData(frame)} :
         \E energy \in {calculateEnergyBands(normalized, FFT_SIZE,
                            IF audioContext # NoContext THEN audioContext
                            ELSE SAMPLE_RATE)} :
         \E processed \in {processEnergy(bpmDetector, energy.total, timestamp)} :
             /\ fftData' = frame
             /\ normalizedFft' = normalized
             /\ bpmDetector' = processed.det
             /\ returned' = [timestamp |-> timestamp,
                             fft |-> normalized,
                             energy |-> energy,
                             bpm |-> getBpm(bpmDetector),
                             beat |-> processed.beat]
             /\ Keep(Float32ArrayFrom("normalizedFft"))

getAnalysis(timestamp, frame) ==
    IF ~isConnected \/ analyserNode = "null"
    THEN /\ returned' = createSilentAnalysis(timestamp)
         /\ Keep(NewFloat32Array)
         /\ UNCHANGED <<fftData, normalizedFft, bpmDetector>>
    ELSE \E normalized \in {normalizeFftData(frame)} :
         \E energy \in {calculateEnergyBands(normalized, FFT_SIZE,
                            IF audioContext # NoContext THEN audioContext
                            ELSE SAMPLE_RATE)} :
         \E processed \in {processEnergy(bpmDetector, energy.total, timestamp)} :
             /\ fftData' = frame
             /\ normalizedFft' = normalized
             /\ bpmDetector' = processed.det
             /\ returned' = [timestamp |-> timestamp,
                             fft |-> normalized,
                             energy |-> energy,
                             bpm |-> getBpm(processed.det),
                             beat |-> processed.beat]
             /\ Keep(Float32ArrayFrom("normalizedFft"))

\* the part of the state only a running loop() has
LoopIdle ==
    /\ inLoop' = FALSE
    /\ iterPos' = 0
    /\ analysis' = NoSample
    /\ invoked' = <<>>

\* connect (lines 204-226), startAnalysisLoop's request (line 354) included
Connect(source, rate) ==
    /\ UNCHANGED <<call, kept>>
    /\ Cardinality(scheduled) + (IF inLoop THEN 1 ELSE 0) < MaxFrames
    /\ audioContext' = IF audioContext = NoContext THEN rate ELSE audioContext
    /\ analyserNode' = "AnalyserNode"
    /\ sourceNode' = IF source = "MediaStream" THEN "AudioNode" ELSE source
    /\ isConnected' = TRUE
    /\ LET id == FreshFrame(scheduled)
       IN  /\ animationFrameId' = id
           /\ scheduled' = scheduled \cup {id}
    /\ returned' = NoSample
    /\ UNCHANGED <<fftData, normalizedFft, bpmDetector, callbacks, now, inLoop,
                   iterPos, analysis, invoked>>

\* disconnect returning at once when the analyzer is not connected
DisconnectEffect_OnlyWhenConnected ==
    IF isConnected
    THEN /\ scheduled' = IF animationFrameId # NoFrame
                         THEN scheduled \ {animationFrameId} ELSE scheduled
         /\ animationFrameId' = NoFrame
         /\ sourceNode' = "null"
         /\ analyserNode' = "null"
         /\ isConnected' = FALSE
         /\ bpmDetector' = reset(bpmDetector)
    ELSE UNCHANGED <<scheduled, animationFrameId, sourceNode, analyserNode,
                     isConnected, bpmDetector>>
\* disconnect (lines 231-254) with stopAnalysisLoop (lines 357-362): what
\* it assigns
DisconnectEffect ==
    /\ scheduled' = IF animationFrameId # NoFrame
                    THEN scheduled \ {animationFrameId} ELSE scheduled
    /\ animationFrameId' = NoFrame
    /\ sourceNode' = "null"
    /\ analyserNode' = "null"
    /\ isConnected' = FALSE
    /\ bpmDetector' = reset(bpmDetector)

Disconnect ==
    /\ UNCHANGED <<call, kept>>
    /\ DisconnectEffect
    /\ returned' = NoSample
    /\ UNCHANGED <<audioContext, fftData, normalizedFft, callbacks, now, inLoop,
                   iterPos, analysis, invoked>>

\* dispose without callbacks.clear()
Dispose_KeepsCallbacks ==
    /\ UNCHANGED <<call, kept>>
    /\ DisconnectEffect
    /\ audioContext' = NoContext
    /\ returned' = NoSample
    /\ UNCHANGED <<fftData, normalizedFft, callbacks, iterPos, now, inLoop,
                   analysis, invoked>>
\* dispose (lines 305-313)
Dispose ==
    /\ UNCHANGED <<call, kept>>
    /\ DisconnectEffect
    /\ callbacks' = <<>>
    /\ iterPos' = 0
    /\ audioContext' = NoContext
    /\ returned' = NoSample
    /\ UNCHANGED <<fftData, normalizedFft, now, inLoop, analysis, invoked>>

\* a consumer (or a running callback) calls getAnalysis()
GetAnalysis(dt, frame) ==
    /\ UNCHANGED call
    /\ now' = now + dt
    /\ getAnalysis(now + dt, frame)
    /\ UNCHANGED <<audioContext, analyserNode, sourceNode, callbacks,
                   animationFrameId, isConnected, scheduled, inLoop, iterPos,
                   analysis, invoked>>

IndexOf(seq, x) == CHOOSE i \in 1..Len(seq) : seq[i] = x
InSeq(seq, x) == \E i \in 1..Len(seq) : seq[i] = x
\* Set.delete removing the entry added last, whichever was asked for
RemoveAt_Last(seq, p) == [i \in 1..(Len(seq) - 1) |-> seq[i]]
RemoveAt(seq, p) == [i \in 1..(Len(seq) - 1) |-> IF i < p THEN seq[i] ELSE seq[i + 1]]

\* onAnalysis (lines 297-300): Set.add keeps an entry already there in place
OnAnalysis(cb) ==
    /\ UNCHANGED <<call, kept>>
    /\ inLoop /\ ~InSeq(callbacks, cb)
         => Len(invoked) + (Len(callbacks) - iterPos) < MaxCalls
    /\ callbacks' = IF InSeq(callbacks, cb) THEN callbacks ELSE Append(callbacks, cb)
    /\ returned' = NoSample
    /\ UNCHANGED <<audioContext, analyserNode, sourceNode, fftData, normalizedFft,
                   bpmDetector, animationFrameId, isConnected, now, scheduled,
                   inLoop, iterPos, analysis, invoked>>

\* the function onAnalysis returned (line 299): Set.delete; a running for-of
\* does not skip or repeat the entries that remain
Unsubscribe(cb) ==
    /\ UNCHANGED <<call, kept>>
    /\ IF InSeq(callbacks, cb)
       THEN LET p == IndexOf(callbacks, cb)
            IN  /\ callbacks' = RemoveAt(callbacks, p)
                /\ iterPos' = IF p <= iterPos THEN iterPos - 1 ELSE iterPos
       ELSE UNCHANGED <<callbacks, iterPos>>
    /\ returned' = NoSample
    /\ UNCHANGED <<audioContext, analyserNode, sourceNode, fftData, normalizedFft,
                   bpmDetector, animationFrameId, isConnected, now, scheduled,
                   inLoop, analysis, invoked>>

(***************************************************************************)
(* loop (lines 341-352).  The browser runs a requested frame; loop() runs  *)
(* to its first callback call (LoopFrame), and from one callback's return  *)
(* to the next call or to its own end (CallbackReturn).  While a callback  *)
(* runs (inLoop), the analyzer's methods above are calls made by that      *)
(* callback.                                                               *)
(***************************************************************************)
LoopFrame(id, dt, frame) ==
    /\ UNCHANGED call
    /\ ~inLoop
    /\ id \in scheduled
    /\ IF ~isConnected
       THEN /\ scheduled' = scheduled \ {id}
            /\ animationFrameId' = AfterFrame(id)
            /\ returned' = NoSample
            /\ UNCHANGED <<audioContext, analyserNode, sourceNode, fftData,
                           normalizedFft, bpmDetector, callbacks, isConnected, now,
                           inLoop, iterPos, analysis, invoked, kept>>
       ELSE /\ now' = now + dt
            /\ getAnalysis(now + dt, frame)
            /\ IF callbacks = <<>>
               THEN /\ LoopIdle
                    /\ LET next == FreshFrame(scheduled \ {id})
                       IN  /\ animationFrameId' = next
                           /\ scheduled' = (scheduled \ {id}) \cup {next}
               ELSE /\ inLoop' = TRUE
                    /\ iterPos' = 1
                    /\ analysis' = returned'
                    /\ invoked' = <<callbacks[1]>>
                    /\ scheduled' = scheduled \ {id}
                    /\ animationFrameId' = AfterFrame(id)
            /\ UNCHANGED <<audioContext, analyserNode, sourceNode, callbacks,
                           isConnected>>

CallbackReturn ==
    /\ UNCHANGED <<call, kept>>
    /\ inLoop
    /\ IF iterPos < Len(callbacks)
       THEN /\ iterPos' = iterPos + 1
            /\ invoked' = Append(invoked, callbacks[iterPos + 1])
            /\ UNCHANGED <<inLoop, analysis, animationFrameId, scheduled>>
       ELSE /\ LoopIdle
            /\ LET next == FreshFrame(scheduled)
               IN  /\ animationFrameId' = next
                   /\ scheduled' = scheduled \cup {next}
    /\ returned' = NoSample
    /\ UNCHANGED <<audioContext, analyserNode, sourceNode, fftData, normalizedFft,
                   bpmDetector, callbacks, isConnected, now>>

\* the running callback throws: loop() ends at line 348, line 351 is not run
CallbackThrow ==
    /\ UNCHANGED <<call, kept>>
    /\ inLoop
    /\ LoopIdle
    /\ returned' = NoSample
    /\ UNCHANGED <<audioContext, analyserNode, sourceNode, fftData, normalizedFft,
                   bpmDetector, callbacks, animationFrameId, isConnected, now,
                   scheduled>>

(***************************************************************************)
(* Spec: every method and every frame in any order, callbacks calling back *)
(* into the analyzer included, over a small alphabet of inputs.            *)
(***************************************************************************)
Next ==
    \/ \E source \in Sources, rate \in CoarseSampleRates : Connect(source, rate)
    \/ Disconnect
    \/ Dispose
    \/ \E dt \in CoarseSteps, frame \in CoarseFrames :
          now + dt <= CoarseMaxTime /\ GetAnalysis(dt, frame)
    \/ \E cb \in Callbacks : OnAnalysis(cb)
    \/ \E cb \in Callbacks : Unsubscribe(cb)
    \/ \E id \in scheduled, dt \in CoarseSteps, frame \in CoarseFrames :
          now + dt <= CoarseMaxTime /\ LoopFrame(id, dt, frame)
    \/ CallbackReturn
    \/ CallbackThrow

Spec == Init /\ [][Next]_vars

(***************************************************************************)
(* SpecSession: a client that connects only when disconnected and          *)
(* registers no callback, over the full alphabet of inputs.                *)
(***************************************************************************)
NextSession ==
    \/ \E source \in Sources, rate \in SampleRates :
          ~isConnected /\ Connect(source, rate)
    \/ Disconnect
    \/ Dispose
    \/ \E dt \in Steps, frame \in Frames :
          now + dt <= MaxTime /\ GetAnalysis(dt, frame)
    \/ \E id \in scheduled, dt \in Steps, frame \in Frames :
          now + dt <= MaxTime /\ LoopFrame(id, dt, frame)

SpecSession == Init /\ [][NextSession]_vars

(***************************************************************************)
(* FairSpec: the loop and the clients that connect, disconnect, register   *)
(* and unregister callbacks, the browser running every frame it was asked  *)
(* for and every callback that does not throw returning.  A requested      *)
(* frame can always run: the step dt = 0 stays within CoarseMaxTime.       *)
(***************************************************************************)
LoopFrames == {UniformFrame(10)}

BrowserStep ==
    \/ \E id \in scheduled, dt \in CoarseSteps, frame \in LoopFrames :
          now + dt <= CoarseMaxTime /\ LoopFrame(id, dt, frame)
    \/ CallbackReturn

NextLoop ==
    \/ \E source \in Sources, rate \in CoarseSampleRates : Connect(source, rate)
    \/ Disconnect
    \/ \E cb \in Callbacks : OnAnalysis(cb)
    \/ \E cb \in Callbacks : Unsubscribe(cb)
    \/ BrowserStep
    \/ CallbackThrow

FairSpec == Init /\ [][NextLoop]_vars /\ WF_vars(BrowserStep)

(***************************************************************************)
(* SpecQuiet: SpecSession fed only ticks whose total energy exceeds the    *)
(* previous tick's by at most 0.15.                                        *)
(***************************************************************************)
\* the total energy a connected tick computes from `frame`
TotalOf(frame) ==
    calculateEnergyBands(normalizeFftData(frame), FFT_SIZE,
        IF audioContext # NoContext THEN audioContext ELSE SAMPLE_RATE).total

NoQualifyingDelta(frame) ==
    isConnected => ~RatLt(ONSET_THRESHOLD, RatSub(TotalOf(frame), bpmDetector.lastEnergy))

NextQuiet ==
    \/ \E source \in Sources, rate \in SampleRates :
          ~isConnected /\ Connect(source, rate)
    \/ Disconnect
    \/ \E dt \in Steps, frame \in Frames :
          now + dt <= MaxTime /\ NoQualifyingDelta(frame) /\ GetAnalysis(dt, frame)
    \/ \E id \in scheduled, dt \in Steps, frame \in Frames :
          now + dt <= MaxTime /\ NoQualifyingDelta(frame) /\ LoopFrame(id, dt, frame)

SpecQuiet == Init /\ [][NextQuiet]_vars

(***************************************************************************)
(* SpecWarm: a connected session taken up after a run of onsets.  The      *)
(* detector of its first state is the one processEnergy leaves after       *)
(* `onsets` onsets, the first `short` gaps 400 ms and the others 1100 ms,  *)
(* the last onset at WarmStart; the session goes on for WarmSpan ms.       *)
(***************************************************************************)
WarmStart == 17000
WarmSpan == 1200
WarmOnsets == {15, 16}

Gap(short, i) == IF i <= short THEN 400 ELSE 1100

\* the time of onset i of `onsets`
RECURSIVE OnsetAt(_, _, _)
OnsetAt(onsets, short, i) ==
    IF i = onsets THEN WarmStart
    ELSE OnsetAt(onsets, short, i + 1) - Gap(short, i)

\* the detector `d`, which has seen the onsets before onset i, after the
\* others: a silent tick and then a full-scale tick at each onset's time
RECURSIVE Warm(_, _, _, _)
Warm(d, onsets, short, i) ==
    IF d.lastOnsetTime >= WarmStart THEN d
    ELSE Warm(processEnergy(
                  processEnergy(d, RatInt(0), OnsetAt(onsets, short, i)).det,
                  RatInt(1), OnsetAt(onsets, short, i)).det,
              onsets, short, i + 1)

InitWarm ==
    /\ \E onsets \in WarmOnsets, short \in {0, 1, 14}, rate \in SampleRates :
          /\ bpmDetector = Warm(NewBpmDetector, onsets, short, 1)
          /\ audioContext = rate
    /\ analyserNode = "AnalyserNode"
    /\ sourceNode = "AudioNode"
    /\ fftData = UniformFrame(10)
    /\ normalizedFft = normalizeFftData(UniformFrame(10))
    /\ callbacks = <<>>
    /\ animationFrameId = 1
    /\ isConnected = TRUE
    /\ scheduled = {1}
    /\ inLoop = FALSE
    /\ iterPos = 0
    /\ analysis = NoSample
    /\ invoked = <<>>
    /\ returned = NoSample
    /\ now = WarmStart
    /\ call = NoCall
    /\ kept = NoKeeper

NextWarm ==
    \/ \E dt \in Steps, frame \in Frames :
          now + dt <= WarmStart + WarmSpan /\ GetAnalysis(dt, frame)
    \/ \E id \in scheduled, dt \in Steps, frame \in Frames :
          now + dt <= WarmStart + WarmSpan /\ LoopFrame(id, dt, frame)

SpecWarm == InitWarm /\ [][NextWarm]_vars

(***************************************************************************)
(* SpecBands: calculateEnergyBands applied to a spectrum of up to MaxRuns  *)
(* runs of bins in [0, 1], for transforms whose bands fall on few bins.    *)
(***************************************************************************)
MaxRuns == 3
RunLengths == {1, 3, 7}
BandValues == {RatInt(0), <<1, 2>>, RatInt(1)}
Spectra == UNION {[1..n -> RunLengths \X BandValues] : n \in 1..MaxRuns}
\* <<fftSize, sampleRate>>
Transforms == {<<2, 1000>>, <<4, 1000>>, <<8, 44100>>, <<FFT_SIZE, SAMPLE_RATE>>}

InitBands ==
    /\ Constructed
    /\ Quiescent
    /\ now = 0
    /\ kept = NoKeeper
    /\ \E spectrum \in Spectra, transform \in Transforms :
          call = [fn |-> "calculateEnergyBands",
                  args |-> <<spectrum, transform[1], transform[2]>>,
                  done |-> FALSE]

ApplyEnergyBands ==
    /\ call.fn = "calculateEnergyBands"
    /\ ~call.done
    /\ call' = [fn |-> call.fn, args |-> call.args, done |-> TRUE,
                result |-> calculateEnergyBands(call.args[1], call.args[2],
                                                call.args[3])]
    /\ UNCHANGED <<audioContext, analyserNode, sourceNode, fftData, normalizedFft,
                   bpmDetector, callbacks, animationFrameId, isConnected, now,
                   scheduled, inLoop, iterPos, analysis, invoked, returned, kept>>

NextBands == ApplyEnergyBands

SpecBands == InitBands /\ [][NextBands]_vars

(***************************************************************************)
(* SpecSpectrum: a session whose analyser delivers decibel arrays with     *)
(* levels below the floor, above the ceiling and at minus infinity (the    *)
(* level of a silent bin).  <<-1, 0>> is minus infinity: it compares below *)
(* every rational under RatLt.  A frame holds one level in every bin, or   *)
(* one in its BassBins first bins and another in the others.               *)
(***************************************************************************)
NegInfinity == <<-1, 0>>
BassBins == 11
RawLevels == {NegInfinity, RatInt(-120), RatInt(MinDb), RatInt(-25),
              RatInt(MaxDb), RatInt(10)}
RawFrames ==
    {<< <<FFT_SIZE \div 2, level>> >> : level \in RawLevels}
    \cup {<< <<BassBins, levels[1]>>, <<(FFT_SIZE \div 2) - BassBins, levels[2]>> >> :
             levels \in {l \in RawLevels \X RawLevels : l[1] # l[2]}}

NextSpectrum ==
    \/ \E source \in Sources, rate \in CoarseSampleRates :
          ~isConnected /\ Connect(source, rate)
    \/ Disconnect
    \/ \E dt \in CoarseSteps, frame \in RawFrames :
          now + dt <= CoarseMaxTime /\ GetAnalysis(dt, frame)
    \/ \E id \in scheduled, dt \in CoarseSteps, frame \in RawFrames :
          now + dt <= CoarseMaxTime /\ LoopFrame(id, dt, frame)

SpecSpectrum == Init /\ [][NextSpectrum]_vars

(***************************************************************************)
(* SpecKeep: a session with a client that holds on to one of the samples   *)
(* it was given, by getAnalysis or as a callback of the loop, while the    *)
(* analyzer goes on.                                                       *)
(***************************************************************************)
InitKeep ==
    /\ Constructed
    /\ Quiescent
    /\ now = 0
    /\ call = NoCall
    /\ kept = NothingKept

NextKeep ==
    \/ \E source \in Sources, rate \in CoarseSampleRates :
          ~isConnected /\ Connect(source, rate)
    \/ Disconnect
    \/ Dispose
    \/ \E dt \in CoarseSteps, frame \in CoarseFrames :
          now + dt <= CoarseMaxTime /\ GetAnalysis(dt, frame)
    \/ callbacks = <<>> /\ OnAnalysis(1)
    \/ \E id \in scheduled, dt \in CoarseSteps, frame \in CoarseFrames :
          now + dt <= CoarseMaxTime /\ LoopFrame(id, dt, frame)
    \/ CallbackReturn

SpecKeep == InitKeep /\ [][NextKeep]_vars

(***************************************************************************)
(* SpecSubscribers: the loop of a session that stays connected and its     *)
(* callbacks, which are registered and unregistered at any moment, a       *)
(* running tick included, and which call getAnalysis themselves.           *)
(***************************************************************************)
NextSubscribers ==
    \/ \E source \in Sources, rate \in CoarseSampleRates :
          ~isConnected /\ Connect(source, rate)
    \/ \E cb \in Callbacks : OnAnalysis(cb)
    \/ \E cb \in Callbacks : Unsubscribe(cb)
    \/ \E dt \in CoarseSteps, frame \in CoarseFrames :
          inLoop /\ now + dt <= CoarseMaxTime /\ GetAnalysis(dt, frame)
    \/ \E id \in scheduled, dt \in CoarseSteps, frame \in CoarseFrames :
          now + dt <= CoarseMaxTime /\ LoopFrame(id, dt, frame)
    \/ CallbackReturn

SpecSubscribers == Init /\ [][NextSubscribers]_vars

(***************************************************************************)
(* SpecTeardown: sessions that end by disconnect or dispose, called from   *)
(* outside or by a callback of a running tick, and start again; connect is *)
(* called on a connected analyzer too.                                     *)
(***************************************************************************)
NextTeardown ==
    \/ \E source \in Sources, rate \in CoarseSampleRates : Connect(source, rate)
    \/ Disconnect
    \/ Dispose
    \/ \E dt \in CoarseSteps, frame \in LoopFrames :
          now + dt <= CoarseMaxTime /\ GetAnalysis(dt, frame)
    \/ \E cb \in Callbacks : OnAnalysis(cb)
    \/ BrowserStep

SpecTeardown == Init /\ [][NextTeardown]_vars
(***************************************************************************)
(* SpecBandEnergy: calculateBandEnergy applied to a spectrum and a bin     *)
(* range, ranges before the first bin and past the last one included.      *)
(***************************************************************************)
BinArgs == {-1, 0, 1, 3, 4, 8}

InitBandEnergy ==
    /\ Constructed
    /\ Quiescent
    /\ now = 0
    /\ kept = NoKeeper
    /\ \E spectrum \in Spectra, startBin \in BinArgs, endBin \in BinArgs :
          call = [fn |-> "calculateBandEnergy",
                  args |-> <<spectrum, startBin, endBin>>,
                  done |-> FALSE]

ApplyBandEnergy ==
    /\ call.fn = "calculateBandEnergy"
    /\ ~call.done
    /\ call' = [fn |-> call.fn, args |-> call.args, done |-> TRUE,
                result |-> calculateBandEnergy(call.args[1], call.args[2],
                                               call.args[3]),
                reads |-> BinsRead(call.args[1], call.args[2], call.args[3])]
    /\ UNCHANGED <<audioContext, analyserNode, sourceNode, fftData, normalizedFft,
                   bpmDetector, callbacks, animationFrameId, isConnected, now,
                   scheduled, inLoop, iterPos, analysis, invoked, returned, kept>>

NextBandEnergy == ApplyBandEnergy

SpecBandEnergy == InitBandEnergy /\ [][NextBandEnergy]_vars

(***************************************************************************)
(* SpecPulls: one connected session run twice on the same input.  The      *)
(* input is a sequence of events, each dt ms after the one before, with    *)
(* the decibel array the analyser holds then: a frame of the loop, whose   *)
(* sample goes to the callbacks, or a getAnalysis call of a consumer.  One *)
(* run makes the consumer's calls, the other leaves them out.              *)
(***************************************************************************)
MaxEvents == 3
Events == [dt : CoarseSteps, frame : CoarseFrames, by : {"loop", "consumer"}]
EventSequences == UNION {[1..n -> Events] : n \in 1..MaxEvents}

\* getAnalysis of a connected analyzer (lines 267-290): the detector it
\* leaves and the sample it returns
ConnectedAnalysis(det, frame, timestamp, sampleRate) ==
    LET normalized == normalizeFftData(frame)
        energy == calculateEnergyBands(normalized, FFT_SIZE, sampleRate)
        processed == processEnergy(det, energy.total, timestamp)
    IN  [det |-> processed.det,
         sample |-> [timestamp |-> timestamp,
                     fft |-> normalized,
                     energy |-> energy,
                     bpm |-> getBpm(processed.det),
                     beat |-> processed.beat]]

\* the beat and bpm of the samples loop() hands to the callbacks (lines
\* 344-349) over the events, the consumer's getAnalysis calls made (pulls)
\* or left out
RECURSIVE Delivered(_, _, _, _)
Delivered(det, time, events, pulls) ==
    IF events = <<>> THEN <<>>
    ELSE LET event == Head(events)
             timestamp == time + event.dt
             a == ConnectedAnalysis(det, event.frame, timestamp, SAMPLE_RATE)
         IN  IF event.by = "loop"
             THEN <<[beat |-> a.sample.beat, bpm |-> a.sample.bpm]>>
                  \o Delivered(a.det, timestamp, Tail(events), pulls)
             ELSE Delivered(IF pulls THEN a.det ELSE det, timestamp,
                            Tail(events), pulls)

InitPulls ==
    /\ Constructed
    /\ Quiescent
    /\ now = 0
    /\ kept = NoKeeper
    /\ \E events \in EventSequences :
          call = [fn |-> "session", args |-> <<events>>, done |-> FALSE]

ApplySession ==
    /\ call.fn = "session"
    /\ ~call.done
    /\ call' = [fn |-> call.fn, args |-> call.args, done |-> TRUE,
                result |-> [withPulls |->
                                Delivered(NewBpmDetector, 0, call.args[1], TRUE),
                            withoutPulls |->
                                Delivered(NewBpmDetector, 0, call.args[1], FALSE)]]
    /\ UNCHANGED <<audioContext, analyserNode, sourceNode, fftData, normalizedFft,
                   bpmDetector, callbacks, animationFrameId, isConnected, now,
                   scheduled, inLoop, iterPos, analysis, invoked, returned, kept>>

NextPulls == ApplySession

SpecPulls == InitPulls /\ [][NextPulls]_vars
(***************************************************************************)
(* core/errors.ts: the error codes (lines 6-20), the metadata table (lines *)
(* 37-46) and createSonicOSError (lines 51-58).  SpecErrors applies        *)
(* createSonicOSError to every code and a few messages, the empty string   *)
(* among them.                                                             *)
(***************************************************************************)
SonicOSErrorCode ==
    {"AUDIO_CONNECT_FAILED", "AUDIO_STREAM_LOST",
     "WEBGL_INIT_FAILED", "WEBGL_CONTEXT_LOST", "SHADER_COMPILE_ERROR",
     "ENV_PARSE_ERROR", "ENV_VALIDATION_ERROR", "ENV_NOT_FOUND"}

\* ERROR_METADATA with a lost WebGL context not recoverable
ERROR_METADATA_ContextLostFatal ==
    [AUDIO_CONNECT_FAILED |-> [recoverable |-> TRUE, category |-> "Audio"],
     AUDIO_STREAM_LOST |-> [recoverable |-> TRUE, category |-> "Audio"],
     WEBGL_INIT_FAILED |-> [recoverable |-> FALSE, category |-> "Visual"],
     WEBGL_CONTEXT_LOST |-> [recoverable |-> FALSE, category |-> "Visual"],
     SHADER_COMPILE_ERROR |-> [recoverable |-> FALSE, category |-> "Visual"],
     ENV_PARSE_ERROR |-> [recoverable |-> TRUE, category |-> "Config"],
     ENV_VALIDATION_ERROR |-> [recoverable |-> TRUE, category |-> "Config"],
     ENV_NOT_FOUND |-> [recoverable |-> TRUE, category |-> "Config"]]

ERROR_METADATA ==
    [AUDIO_CONNECT_FAILED |-> [recoverable |-> TRUE, category |-> "Audio"],
     AUDIO_STREAM_LOST |-> [recoverable |-> TRUE, category |-> "Audio"],
     WEBGL_INIT_FAILED |-> [recoverable |-> FALSE, category |-> "Visual"],
     WEBGL_CONTEXT_LOST |-> [recoverable |-> TRUE, category |-> "Visual"],
     SHADER_COMPILE_ERROR |-> [recoverable |-> FALSE, category |-> "Visual"],
     ENV_PARSE_ERROR |-> [recoverable |-> TRUE, category |-> "Config"],
     ENV_VALIDATION_ERROR |-> [recoverable |-> TRUE, category |-> "Config"],
     ENV_NOT_FOUND |-> [recoverable |-> TRUE, category |-> "Config"]]

createSonicOSError(code, message) ==
    LET metadata == ERROR_METADATA[code]
    IN  [code |-> code, message |-> message, recoverable |-> metadata.recoverable]

\* the message arguments
Messages ==
    {"", " ", "x", "Failed to connect to audio source", "Audio stream disconnected",
     "WebGL2 not supported or init failed", "Shader compilation failed"}

InitErrors ==
    /\ Constructed
    /\ Quiescent
    /\ now = 0
    /\ kept = NoKeeper
    /\ \E code \in SonicOSErrorCode, message \in Messages :
          call = [fn |-> "createSonicOSError",
                  args |-> <<code, message>>,
                  done |-> FALSE]

ApplyCreateError ==
    /\ call.fn = "createSonicOSError"
    /\ ~call.done
    /\ call' = [fn |-> call.fn, args |-> call.args, done |-> TRUE,
                result |-> createSonicOSError(call.args[1], call.args[2])]
    /\ UNCHANGED <<audioContext, analyserNode, sourceNode, fftData, normalizedFft,
                   bpmDetector, callbacks, animationFrameId, isConnected, now,
                   scheduled, inLoop, iterPos, analysis, invoked, returned, kept>>

NextErrors == ApplyCreateError

SpecErrors == InitErrors /\ [][NextErrors]_vars

(***************************************************************************)
(* The claims.                                                             *)
(***************************************************************************)
\* the rational 60 <= bpm <= 200
BpmInRange(bpm) == 60 * bpm[2] <= bpm[1] /\ bpm[1] <= 200 * bpm[2]

\* the last step was a getAnalysis() call made while connected / not connected
ConnectedTick == returned # NoSample /\ isConnected
SilentTick == returned # NoSample /\ ~isConnected

\* the step is a getAnalysis() call of a connected analyzer
ConnectedTickStep == isConnected /\ returned' # NoSample

\* C1: the bpm of every sample returned by getAnalysis or handed to a
\* callback, and the detector's currentBpm, lie in [60, 200], whatever the
\* order of connect, disconnect, dispose, getAnalysis and frames.
C1_BpmInRange ==
    /\ BpmInRange(bpmDetector.currentBpm)
    /\ returned # NoSample => BpmInRange(returned.bpm)
    /\ analysis # NoSample => BpmInRange(analysis.bpm)

\* a beat whose sample carries a BPM computed from intervals
C1_Witness ==
    /\ ConnectedTick
    /\ returned.beat
    /\ returned.bpm # RatInt(120)
    /\ Len(bpmDetector.onsetTimes) >= 3

\* C2: getAnalysis called while not connected returns 1024 bins all 0, the
\* four energies 0, beat false and bpm 120.
C2_SilentWhenNotConnected ==
    SilentTick =>
        /\ ArrayLen(returned.fft) = 1024
        /\ \A i \in 0..1023 : At(returned.fft, i) = RatInt(0)
        /\ returned.energy = [low |-> RatInt(0), mid |-> RatInt(0),
                              high |-> RatInt(0), total |-> RatInt(0)]
        /\ returned.beat = FALSE
        /\ returned.bpm = RatInt(120)

\* a call after a disconnect, the buffer still holding the last spectrum
C2_Witness ==
    /\ SilentTick
    /\ audioContext # NoContext
    /\ normalizedFft # ZeroArray(1024)

\* capture was connected and no longer is, and callbacks are registered
CaptureLost ==
    /\ ~isConnected
    /\ audioContext # NoContext
    /\ callbacks # <<>>
    /\ ~inLoop

\* a callback is being handed an all-zero sample
SilentDelivered ==
    /\ inLoop
    /\ analysis # NoSample
    /\ analysis.energy.total = RatInt(0)
    /\ analysis.fft = ZeroArray(1024)

\* C3: once capture is lost while callbacks are registered, a callback is
\* eventually called again with a silent sample, unless the client connects
\* again or withdraws the callbacks first.
C3_TicksGoOnAfterDisconnect ==
    CaptureLost ~> (SilentDelivered \/ isConnected \/ callbacks = <<>>)

\* the elements of a sequence
Range(seq) == {seq[i] : i \in 1..Len(seq)}

\* C4: a step that leaves the analyzer disconnected leaves the onset
\* history empty, the previous energy and last-onset time 0 and BPM 120, and
\* every timestamp a step leaves in the history is the time of that step or
\* was in the history of a connected analyzer before it: no timestamp
\* survives a disconnect.
C4_ResetOnDisconnect ==
    [][/\ ~isConnected' =>
             /\ bpmDetector'.onsetTimes = <<>>
             /\ bpmDetector'.lastEnergy = RatInt(0)
             /\ bpmDetector'.lastOnsetTime = 0
             /\ bpmDetector'.currentBpm = RatInt(120)
       /\ \A t \in Range(bpmDetector'.onsetTimes) :
             \/ t = now'
             \/ isConnected /\ isConnected' /\ t \in Range(bpmDetector.onsetTimes)
      ]_vars

\* disconnected after ticks were analysed, the detector as new
C4_Witness ==
    /\ ~isConnected
    /\ audioContext # NoContext
    /\ normalizedFft = normalizeFftData(UniformFrame(10))
    /\ now >= 800
    /\ bpmDetector = NewBpmDetector

\* C5: on a connected tick, beat is true exactly when the total energy
\* exceeds the previous tick's by more than 0.15 and timestamp - lastOnsetTime
\* >= 300.
C5_OnsetIffDeltaAndInterval ==
    [][ConnectedTickStep =>
          (returned'.beat <=>
              /\ RatLt(<<3, 20>>, RatSub(returned'.energy.total, bpmDetector.lastEnergy))
              /\ returned'.timestamp - bpmDetector.lastOnsetTime >= 300)
      ]_vars

\* C6: the onset history never holds more than 16 timestamps, and an onset
\* arriving with 16 stored leaves the 15 newest in their order followed by the
\* new one (an onset arriving with fewer leaves them all, the new one last).
C6_HistoryBounded ==
    /\ Len(bpmDetector.onsetTimes) <= 16
    /\ [][/\ Len(bpmDetector'.onsetTimes) <= 16
           /\ ConnectedTickStep /\ returned'.beat =>
                 bpmDetector'.onsetTimes =
                     IF Len(bpmDetector.onsetTimes) = 16
                     THEN Append(Tail(bpmDetector.onsetTimes), returned'.timestamp)
                     ELSE Append(bpmDetector.onsetTimes, returned'.timestamp)
          ]_vars

\* 16 stored, the two newest recorded after the session was taken up: an
\* onset has evicted one
C6_Witness ==
    /\ Len(bpmDetector.onsetTimes) = 16
    /\ bpmDetector.onsetTimes[15] > WarmStart
    /\ ConnectedTick /\ returned.beat

\* the sum and the number of the differences of consecutive timestamps of h,
\* up to the i-th, that lie in [300, 1000]
RECURSIVE ValidSum(_, _)
ValidSum(h, i) ==
    IF i = 0 THEN 0
    ELSE ValidSum(h, i - 1) +
         (IF h[i + 1] - h[i] >= 300 /\ h[i + 1] - h[i] <= 1000
          THEN h[i + 1] - h[i] ELSE 0)

RECURSIVE ValidCount(_, _)
ValidCount(h, i) ==
    IF i = 0 THEN 0
    ELSE ValidCount(h, i - 1) +
         (IF h[i + 1] - h[i] >= 300 /\ h[i + 1] - h[i] <= 1000 THEN 1 ELSE 0)

\* bpm is 60000 / (sum / count), clamped to [60, 200]
IsBpmOfMean(bpm, sum, count) ==
    IF 60000 * count > 200 * sum THEN bpm = RatInt(200)
    ELSE IF 60000 * count < 60 * sum THEN bpm = RatInt(60)
    ELSE bpm[1] * sum = 60000 * count * bpm[2]

\* C7: after an onset that leaves a valid interval in the history, BPM is
\* 60000 over the mean of the differences of consecutive timestamps that lie
\* in [300, 1000] ms, clamped to [60, 200]; the other differences do not
\* count.
C7_BpmIsMeanOfValidIntervals ==
    [][ConnectedTickStep /\ returned'.beat =>
          LET h == bpmDetector'.onsetTimes
              sum == ValidSum(h, Len(h) - 1)
              count == ValidCount(h, Len(h) - 1)
          IN  count > 0 =>
                /\ IsBpmOfMean(bpmDetector'.currentBpm, sum, count)
                /\ returned'.bpm = bpmDetector'.currentBpm
      ]_vars

\* a beat with two valid intervals and one invalid interval in the history
C7_Witness ==
    /\ ConnectedTick /\ returned.beat
    /\ LET h == bpmDetector.onsetTimes
       IN  /\ Len(h) >= 4
           /\ ValidCount(h, Len(h) - 1) >= 2
           /\ ValidCount(h, Len(h) - 1) < Len(h) - 1

\* C8: an onset that leaves no valid interval in the history leaves BPM as
\* it was; and while the history has never been full, no valid interval in
\* it means BPM is 120.
C8_BpmHeldWithoutValidInterval ==
    /\ [](LET h == bpmDetector.onsetTimes
          IN  Len(h) < 16 /\ ValidCount(h, Len(h) - 1) = 0 =>
                bpmDetector.currentBpm = RatInt(120))
    /\ [][ConnectedTickStep /\ returned'.beat =>
             LET h == bpmDetector'.onsetTimes
             IN  ValidCount(h, Len(h) - 1) = 0 =>
                   /\ bpmDetector'.currentBpm = bpmDetector.currentBpm
                   /\ returned'.bpm = bpmDetector.currentBpm
          ]_vars

\* an onset has evicted the only valid interval: BPM stays 150
C8_Witness ==
    /\ ConnectedTick /\ returned.beat
    /\ ValidCount(bpmDetector.onsetTimes, Len(bpmDetector.onsetTimes) - 1) = 0
    /\ returned.bpm = RatInt(150)

\* C9: fed only ticks whose energy delta does not exceed 0.15, no tick
\* reports a beat, the history stays empty and BPM stays 120.
C9_QuietInputKeepsDefault ==
    /\ bpmDetector.onsetTimes = <<>>
    /\ bpmDetector.currentBpm = RatInt(120)
    /\ returned # NoSample => (returned.beat = FALSE /\ returned.bpm = RatInt(120))

\* ticks have raised the energy to 0.3 in steps of 0.15, 700 ms in
C9_Witness ==
    /\ ConnectedTick
    /\ now >= 700
    /\ returned.energy.total = <<3, 10>>

\* the rational 0 <= x <= 1
InUnit(x) == 0 <= x[1] /\ x[1] <= x[2]

\* C10: calculateEnergyBands returns total = min(1, max(0, 0.5 low + 0.3 mid
\* + 0.2 high)) and low, mid, high, total in [0, 1], for bins in [0, 1].
C10_TotalIsWeightedSum ==
    call.fn = "calculateEnergyBands" /\ call.done =>
        LET r == call.result
            weighted == Rat(5 * r.low[1] * r.mid[2] * r.high[2]
                            + 3 * r.mid[1] * r.low[2] * r.high[2]
                            + 2 * r.high[1] * r.low[2] * r.mid[2],
                            10 * r.low[2] * r.mid[2] * r.high[2])
        IN  /\ r.total = (IF weighted[1] > weighted[2] THEN <<1, 1>>
                          ELSE IF weighted[1] < 0 THEN <<0, 1>> ELSE weighted)
            /\ InUnit(r.low) /\ InUnit(r.mid) /\ InUnit(r.high) /\ InUnit(r.total)

\* the three bands over different bins, their means different and not 0
C10_Witness ==
    /\ call.fn = "calculateEnergyBands" /\ call.done
    /\ call.result.low[1] > 0 /\ call.result.mid[1] > 0 /\ call.result.high[1] > 0
    /\ call.result.low # call.result.mid
    /\ call.result.mid # call.result.high
    /\ call.result.low # call.result.high

\* a call of calculateEnergyBands has returned
BandsReturned == call.fn = "calculateEnergyBands" /\ call.done

\* bin i lies in the band [fmin, fmax) Hz of the transform: fmin and fmax
\* round to bins s <= i < e, that is, fmin / w < i + 1/2 <= fmax / w for the
\* bin width w = sampleRate / fftSize
BinInBand(i, fmin, fmax, fftSize, sampleRate) ==
    /\ 2 * fmin * fftSize < (2 * i + 1) * sampleRate
    /\ (2 * i + 1) * sampleRate <= 2 * fmax * fftSize

\* the bins of the spectrum a that lie in the band
BandBins(a, fmin, fmax, fftSize, sampleRate) ==
    {i \in 0..(ArrayLen(a) - 1) : BinInBand(i, fmin, fmax, fftSize, sampleRate)}

\* the sum of the bins of a whose index is in `bins`, read one by one
RECURSIVE SumOver(_, _)
SumOver(a, bins) ==
    IF bins = {} THEN RatInt(0)
    ELSE LET i == CHOOSE j \in bins : TRUE
         IN  RatAdd(At(a, i), SumOver(a, bins \ {i}))

\* the arithmetic mean of those bins, 0 when there is none
MeanOver(a, bins) ==
    IF bins = {} THEN RatInt(0)
    ELSE RatDiv(SumOver(a, bins), RatInt(Cardinality(bins)))

\* C11: each band calculateEnergyBands returns is the arithmetic mean of the
\* spectrum's bins that lie in the band's frequency range (20-250, 250-4000,
\* 4000-20000 Hz), and 0 when no bin of the spectrum lies in it.
C11_BandIsMeanOfItsBins ==
    BandsReturned =>
        LET a == call.args[1]
            n == call.args[2]
            r == call.args[3]
        IN  /\ call.result.low = MeanOver(a, BandBins(a, 20, 250, n, r))
            /\ call.result.mid = MeanOver(a, BandBins(a, 250, 4000, n, r))
            /\ call.result.high = MeanOver(a, BandBins(a, 4000, 20000, n, r))

\* the bins of the spectrum a that are not 0
NonzeroBins(a) == {i \in 0..(ArrayLen(a) - 1) : At(a, i) # RatInt(0)}

\* how many of the three bands of a result are not 0
NonzeroBands(r) ==
    Cardinality({b \in {"low", "mid", "high"} : r[b] # RatInt(0)})

\* C12: the bin ranges of low, mid and high are pairwise disjoint: the low
\* range ends at the bin where mid starts and the mid range at the bin where
\* high starts, and a spectrum with a single bin that is not 0 gives at most
\* one band that is not 0.
C12_BandsDisjoint ==
    BandsReturned =>
        LET a == call.args[1]
            n == call.args[2]
            r == call.args[3]
        IN  /\ frequencyToBin(LOW_FREQ_MAX, n, r) = frequencyToBin(MID_FREQ_MIN, n, r)
            /\ frequencyToBin(MID_FREQ_MAX, n, r) = frequencyToBin(HIGH_FREQ_MIN, n, r)
            /\ frequencyToBin(LOW_FREQ_MIN, n, r) <= frequencyToBin(LOW_FREQ_MAX, n, r)
            /\ frequencyToBin(MID_FREQ_MIN, n, r) <= frequencyToBin(MID_FREQ_MAX, n, r)
            /\ Cardinality(NonzeroBins(a)) = 1 => NonzeroBands(call.result) <= 1

\* the only bin that is not 0 is the first bin of the mid range, next to the
\* last bin of the low range: mid alone is not 0
C12_Witness ==
    /\ BandsReturned
    /\ LET a == call.args[1]
           first == frequencyToBin(MID_FREQ_MIN, call.args[2], call.args[3])
       IN  /\ first > frequencyToBin(LOW_FREQ_MIN, call.args[2], call.args[3])
           /\ NonzeroBins(a) = {first}
    /\ call.result.mid # RatInt(0)
    /\ call.result.low = RatInt(0)

\* a call of calculateBandEnergy has returned
BandEnergyReturned == call.fn = "calculateBandEnergy" /\ call.done

\* the bin range of the call is degenerate
DegenerateRange ==
    \/ call.args[2] >= call.args[3]
    \/ call.args[2] < 0
    \/ call.args[3] > ArrayLen(call.args[1])

\* C18: calculateBandEnergy returns 0 for every degenerate bin range
\* (startBin >= endBin, startBin < 0 or endBin > fftData.length), and no
\* call reads an index outside the array.
C18_DegenerateRangeIsZero ==
    BandEnergyReturned =>
        /\ DegenerateRange => call.result = RatInt(0)
        /\ call.reads \subseteq 0..(ArrayLen(call.args[1]) - 1)

\* a range that starts inside a spectrum with no bin at 0 and ends past it
C18_Witness ==
    /\ BandEnergyReturned
    /\ call.args[2] >= 0
    /\ call.args[2] < ArrayLen(call.args[1])
    /\ call.args[3] > ArrayLen(call.args[1])
    /\ NonzeroBins(call.args[1]) = 0..(ArrayLen(call.args[1]) - 1)
    /\ call.result = RatInt(0)

\* db held to [-100, 0]
ClampDb(db) ==
    IF RatLt(db, RatInt(-100)) THEN RatInt(-100)
    ELSE IF RatLt(RatInt(0), db) THEN RatInt(0)
    ELSE db

\* C13: the spectrum of the sample a connected getAnalysis returns has
\* exactly 1024 bins, bin i is (clamp(db[i], -100, 0) + 100) / 100 for the
\* decibel value db[i] the analyser delivered, minus infinity included, and
\* so lies in [0, 1].
C13_SpectrumNormalized ==
    ConnectedTick =>
        /\ ArrayLen(returned.fft) = 1024
        /\ ArrayLen(fftData) = 1024
        /\ \A i \in 0..1023 :
              /\ At(returned.fft, i) =
                     RatDiv(RatAdd(ClampDb(At(fftData, i)), RatInt(100)), RatInt(100))
              /\ InUnit(At(returned.fft, i))

\* minus infinity in the first bins and -25 dB in the others
C13_Witness ==
    /\ ConnectedTick
    /\ At(fftData, 0) = NegInfinity
    /\ At(fftData, 1023) = RatInt(-25)
    /\ At(returned.fft, 0) = RatInt(0)
    /\ At(returned.fft, 1023) = <<3, 4>>

\* a client holds a sample
Holding == kept.held = "sample"

\* the sample the client holds as it reads it now: the fft is what the
\* object it refers to holds now
KeptSample ==
    IF kept.fftObject = "normalizedFft"
    THEN [kept.sample EXCEPT !.fft = normalizedFft]
    ELSE kept.sample

\* C14: a sample that getAnalysis returned or a callback was given is never
\* changed afterwards: whatever the analyzer does next (getAnalysis, a loop
\* tick, disconnect, dispose), the holder of the sample reads the same fft,
\* energy, bpm, beat and timestamp.
C14_SamplesNeverChange ==
    [][Holding => (Holding' /\ KeptSample' = KeptSample)]_vars

\* a connected sample is held and the analyzer's buffer holds another
\* spectrum since
C14_Witness ==
    /\ Holding
    /\ kept.sample.energy.total # RatInt(0)
    /\ normalizedFft # kept.sample.fft
    /\ KeptSample.fft = kept.sample.fft

\* C15: while the analyzer is connected the loop is alive, whatever the
\* callbacks do: a tick is running its callbacks or the next frame is
\* requested.
C15_LoopAliveWhileConnected ==
    isConnected => (inLoop \/ scheduled # {})

\* the step is a loop tick up to the call of its first callback
TickBegins == ~inLoop /\ inLoop'

\* C16: when a tick calls its first callback the sample is complete: it is
\* what getAnalysis returned, its spectrum is the one just normalized, its
\* energy is the one the detector has just processed, and its beat and bpm
\* are the detector's answer after processing that energy; every callback
\* of the tick is given that sample, whatever the callbacks before it did.
C16_SampleCompleteBeforeCallbacks ==
    [][/\ TickBegins =>
            /\ analysis' = returned'
            /\ analysis'.timestamp = now'
            /\ analysis'.fft = normalizedFft'
            /\ analysis'.energy =
                   calculateEnergyBands(analysis'.fft, FFT_SIZE, audioContext)
            /\ bpmDetector'.lastEnergy = analysis'.energy.total
            /\ analysis'.bpm = bpmDetector'.currentBpm
            /\ analysis'.beat <=> bpmDetector'.onsetTimes # bpmDetector.onsetTimes
       /\ inLoop /\ inLoop' => analysis' = analysis
       /\ inLoop' => analysis' # NoSample
      ]_vars

\* the second callback of a tick is given a sample with a beat and a BPM
\* computed in this tick, after the first callback called getAnalysis
C16_Witness ==
    /\ inLoop
    /\ Len(invoked) >= 2
    /\ analysis.beat
    /\ analysis.bpm # RatInt(120)
    /\ bpmDetector.lastEnergy # analysis.energy.total

\* the callbacks registered, in the order the loop calls them, but for cb
Others(seq, cb) == SelectSeq(seq, LAMBDA x : x # cb)

\* C17: a call of the unsubscribe function of cb leaves cb unregistered and
\* the other callbacks registered in their order, and changes nothing when
\* cb is not registered (a second call); cb gets registered again only by
\* onAnalysis(cb); the loop calls only callbacks registered at that moment,
\* and a tick that ends has called every callback then registered.
C17_UnsubscribedIsNotInvoked ==
    [][/\ \A cb \in Callbacks :
            /\ Unsubscribe(cb) =>
                  /\ ~InSeq(callbacks', cb)
                  /\ Others(callbacks', cb) = Others(callbacks, cb)
                  /\ ~InSeq(callbacks, cb) =>
                        UNCHANGED <<audioContext, analyserNode, sourceNode, fftData,
                                    normalizedFft, bpmDetector, callbacks,
                                    animationFrameId, isConnected, now, scheduled,
                                    inLoop, iterPos, analysis, invoked, call, kept>>
            /\ ~InSeq(callbacks, cb) /\ InSeq(callbacks', cb) => OnAnalysis(cb)
       /\ invoked' # invoked /\ invoked' # <<>> =>
            /\ callbacks' = callbacks
            /\ InSeq(callbacks, invoked'[Len(invoked')])
       /\ inLoop /\ ~inLoop' /\ scheduled' # scheduled =>
            Range(callbacks) \subseteq Range(invoked)
      ]_vars

\* callback 1, called first in this tick, has been unsubscribed, and the
\* tick has gone on to call callback 2
C17_Witness ==
    /\ inLoop
    /\ callbacks = <<2>>
    /\ invoked = <<1, 2>>

\* a call of createSonicOSError has returned
ErrorReturned == call.fn = "createSonicOSError" /\ call.done

\* C19: the object createSonicOSError returns has a code that is not the
\* empty string, a message that is not the empty string and a boolean
\* recoverable, for every code and every message argument.
C19_ErrorStructure ==
    ErrorReturned =>
        /\ {"code", "message", "recoverable"} \subseteq DOMAIN call.result
        /\ call.result.code # ""
        /\ call.result.message # ""
        /\ call.result.recoverable \in BOOLEAN

\* C20: the object createSonicOSError returns carries the code it was given
\* and the recoverable flag of the documented table: FALSE for
\* WEBGL_INIT_FAILED and SHADER_COMPILE_ERROR, TRUE for the six other
\* codes; ERROR_METADATA has an entry for every code and for nothing else.
C20_RecoverablePerTable ==
    /\ DOMAIN ERROR_METADATA = SonicOSErrorCode
    /\ Cardinality(SonicOSErrorCode) = 8
    /\ ErrorReturned =>
          /\ call.result.code = call.args[1]
          /\ call.result.recoverable =
                 (call.args[1] \notin {"WEBGL_INIT_FAILED", "SHADER_COMPILE_ERROR"})

\* an error that is not recoverable
C20_Witness ==
    /\ ErrorReturned
    /\ call.args[1] = "WEBGL_INIT_FAILED"
    /\ call.result.recoverable = FALSE

\* C21: BPM changes only on onsets.  A connected tick without a beat carries
\* the BPM the detector held before it, which is the BPM of the tick before
\* (the sample of a tick carries the detector's BPM, and between two ticks
\* of a connected analyzer the detector's BPM stays); a tick with a beat
\* carries the BPM recomputed from the history that ends with this onset.
C21_BpmChangesOnlyOnOnsets ==
    [][/\ ConnectedTickStep =>
            /\ returned'.bpm = bpmDetector'.currentBpm
            /\ ~returned'.beat => returned'.bpm = bpmDetector.currentBpm
            /\ returned'.beat =>
                 LET h == bpmDetector'.onsetTimes
                     sum == ValidSum(h, Len(h) - 1)
                     count == ValidCount(h, Len(h) - 1)
                 IN  /\ h # <<>>
                     /\ h[Len(h)] = returned'.timestamp
                     /\ count > 0 => IsBpmOfMean(returned'.bpm, sum, count)
       /\ isConnected /\ isConnected' /\ ~ConnectedTickStep =>
            bpmDetector'.currentBpm = bpmDetector.currentBpm
      ]_vars

\* a tick without a beat carrying a BPM computed by an earlier onset
C21_Witness ==
    /\ ConnectedTick
    /\ ~returned.beat
    /\ returned.bpm # RatInt(120)
    /\ Len(bpmDetector.onsetTimes) >= 2

\* C22: the first onset after construction or a reset is a beat, is stored
\* in the history and leaves BPM at 120: BPM differs from 120 only with two
\* onsets or more since the reset.
C22_FirstOnsetKeepsDefault ==
    /\ [](Len(bpmDetector.onsetTimes) <= 1 => bpmDetector.currentBpm = RatInt(120))
    /\ [][ConnectedTickStep /\ bpmDetector.onsetTimes = <<>> =>
            /\ returned'.bpm = RatInt(120)
            /\ returned'.beat <=> bpmDetector'.onsetTimes = <<returned'.timestamp>>
            /\ ~returned'.beat => bpmDetector'.onsetTimes = <<>>
         ]_vars

\* a first onset 1100 ms or more after construction: a beat, alone in the
\* history, BPM still 120
C22_Witness ==
    /\ ConnectedTick
    /\ returned.beat
    /\ bpmDetector.onsetTimes = <<returned.timestamp>>
    /\ returned.timestamp >= 1100
    /\ returned.bpm = RatInt(120)

\* C23: every connected tick stores its total energy as the previous energy,
\* onset or not, so that a tick's beat is decided on its total minus the
\* total of the connected tick before it; no other step of a connected
\* analyzer touches the previous energy.
C23_PreviousEnergyAlwaysStored ==
    [][/\ ConnectedTickStep =>
            /\ bpmDetector'.lastEnergy = returned'.energy.total
            /\ returned'.beat =>
                 RatLt(<<3, 20>>, RatSub(returned'.energy.total, bpmDetector.lastEnergy))
       /\ isConnected /\ isConnected' /\ ~ConnectedTickStep =>
            bpmDetector'.lastEnergy = bpmDetector.lastEnergy
      ]_vars

\* the energy has risen to 1 within the first 300 ms of a session, where
\* the minimum interval suppresses every onset: no beat, no onset stored,
\* and the energy stored
C23_Witness ==
    /\ ConnectedTick
    /\ ~returned.beat
    /\ returned.timestamp <= 300
    /\ bpmDetector.onsetTimes = <<>>
    /\ returned.energy.total = RatInt(1)
    /\ bpmDetector.lastEnergy = RatInt(1)

\* the detector as the field initialisers and reset leave it
DetectorIsReset ==
    /\ bpmDetector.onsetTimes = <<>>
    /\ bpmDetector.lastEnergy = RatInt(0)
    /\ bpmDetector.lastOnsetTime = 0
    /\ bpmDetector.currentBpm = RatInt(120)

\* C28: whenever the analyzer is not connected the detector is in its reset
\* state (no onset, previous energy 0, last onset time 0, BPM 120); a
\* getAnalysis call of an analyzer that is not connected leaves the detector
\* as it is, and the bpm of the silent sample it returns is the detector's.
C28_DetectorResetWhileNotConnected ==
    /\ [](~isConnected => DetectorIsReset)
    /\ [](SilentTick => returned.bpm = bpmDetector.currentBpm)
    /\ [][~isConnected /\ returned' # NoSample => bpmDetector' = bpmDetector]_vars

\* a silent sample after a session whose last spectrum the buffer still holds
C28_Witness ==
    /\ SilentTick
    /\ normalizedFft = normalizeFftData(BassFrame)
    /\ now >= 1100
    /\ DetectorIsReset

\* C29: two consecutive timestamps of the onset history are more than 300 ms
\* apart, and BPM, in the detector and in every sample, is below 200.
C29_IntervalsAboveMinimum ==
    /\ \A i \in 1..(Len(bpmDetector.onsetTimes) - 1) :
          bpmDetector.onsetTimes[i + 1] - bpmDetector.onsetTimes[i] > 300
    /\ RatLt(bpmDetector.currentBpm, RatInt(200))
    /\ returned # NoSample => RatLt(returned.bpm, RatInt(200))

\* two onsets 400 ms apart, the shortest interval the steps allow: BPM 150
C29_Witness ==
    /\ ConnectedTick
    /\ returned.beat
    /\ Len(bpmDetector.onsetTimes) = 2
    /\ bpmDetector.onsetTimes[2] - bpmDetector.onsetTimes[1] = 400
    /\ returned.bpm = RatInt(150)

\* C30: connect starts from a reset detector, and the tick that finds the
\* detector reset (the first connected tick after construction or after a
\* disconnect is one) measures the energy against 0 and the time against 0:
\* it is a beat exactly when its total energy exceeds 0.15 and its timestamp
\* 300 ms.
C30_FirstTickMeasuredAgainstZero ==
    [][/\ ~isConnected /\ isConnected' => bpmDetector' = NewBpmDetector
       /\ ConnectedTickStep /\ bpmDetector = NewBpmDetector =>
            (returned'.beat <=>
                /\ RatLt(<<3, 20>>, returned'.energy.total)
                /\ returned'.timestamp > 300)
      ]_vars

\* a first onset on a spectrum of steady level -70 dB (total energy 0.3)
C30_Witness ==
    /\ ConnectedTick
    /\ returned.beat
    /\ bpmDetector.onsetTimes = <<returned.timestamp>>
    /\ returned.energy.total = <<3, 10>>
    /\ fftData = UniformFrame(-70)

\* the step calls a callback
CallbackInvoked == invoked' # invoked /\ invoked' # <<>>

C25_NoCallbackAfterDisconnect ==
    [][~isConnected => ~CallbackInvoked]_vars

\* C26: at most one analysis loop is live: the frames requested and not yet
\* run, with the tick that is running, are one at most.
C26_AtMostOneLoop ==
    Cardinality(scheduled) + (IF inLoop THEN 1 ELSE 0) <= 1

\* C27: the getAnalysis calls a consumer makes between the frames of the
\* loop do not change what the callbacks are given: the run with the calls
\* and the run without them deliver the same sequence of beat and bpm.
C27_PullsLeaveDeliveriesAlone ==
    call.fn = "session" /\ call.done =>
        call.result.withPulls = call.result.withoutPulls

\* the analyzer as a disconnect leaves it: not connected, no source or
\* analyser node, no frame id held, the detector reset
Disconnected ==
    /\ ~isConnected
    /\ sourceNode = "null"
    /\ analyserNode = "null"
    /\ animationFrameId = NoFrame
    /\ DetectorIsReset

====
